---- MODULE Spec2Model ----
(***************************************************************************)
(* Skill auto-activation hook (.claude-library/hooks/scripts/              *)
(* skill_activator.py): the prompt scorer, the file-context scorer with    *)
(* its glob-to-regex translation, and main, which merges, ranks,           *)
(* truncates, explains, prints and logs.  PyATSEnvironment                 *)
(* (pyats_environment.py): environment detection and command execution.    *)
(*                                                                         *)
(* Text is a sequence of one-character strings.  A JSON object is a        *)
(* function whose DOMAIN is the set of keys that are present, so that      *)
(* dict.get(key, default) is modelled by Get.  The ordered mapping         *)
(* "skills" is the sequence of its items, in file order.                   *)
(***************************************************************************)
EXTENDS Integers, Sequences, FiniteSets, TLC

VARIABLES
    argv,                 \* command line after the script name
    rulesFile,            \* what open()/json.load find at the rules path
    gitResult,            \* what `git status --short` does in cwd
    pc,                   \* position of main
    prompt,               \* main: prompt
    skill_rules,          \* main: skill_rules
    prompt_matches,       \* main: prompt_matches
    context_matches,      \* main: context_matches
    prioritized,          \* main: prioritized, after the sort
    top_matches,          \* main: top_matches
    matched_with_reason,  \* main: matched_with_reason
    stdout,               \* messages printed so far
    stderr,               \* warnings printed so far
    logFile,              \* entries appended to the activation log
    error                 \* the uncaught exception that ended main, or "none"

VARIABLES
    host,                 \* what the detection probes find on the machine
    env_type,             \* PyATSEnvironment: self.env_type
    command_prefix,       \* PyATSEnvironment: self.command_prefix
    executed,             \* the commands handed to subprocess.run by execute_pyats_command
    returned              \* what the last method call returned

hookVars == <<argv, rulesFile, gitResult, pc, prompt, skill_rules, prompt_matches,
              context_matches, prioritized, top_matches, matched_with_reason,
              stdout, stderr, logFile, error>>

pyatsVars == <<host, env_type, command_prefix, executed, returned>>

vars == <<hookVars, pyatsVars>>

(***************************************************************************)
(* Python built-ins                                                        *)
(***************************************************************************)

\* dict.get(key, default)
Get(d, key, default) == IF key \in DOMAIN d THEN d[key] ELSE default

\* the upper-case letters and their lower-case forms
UpperToLower ==
    [A |-> "a", B |-> "b", C |-> "c", D |-> "d", E |-> "e", F |-> "f", G |-> "g",
     H |-> "h", I |-> "i", J |-> "j", K |-> "k", L |-> "l", M |-> "m", N |-> "n",
     O |-> "o", P |-> "p", Q |-> "q", R |-> "r", S |-> "s", T |-> "t", U |-> "u",
     V |-> "v", W |-> "w", X |-> "x", Y |-> "y", Z |-> "z"]

\* str.lower() on one character
Lower(c) == IF c \in DOMAIN UpperToLower THEN UpperToLower[c] ELSE c

\* str.lower()
StrLower(s) == [i \in 1..Len(s) |-> Lower(s[i])]

\* needle in hay
IsSubstring(needle, hay) ==
    \E i \in 0..(Len(hay) - Len(needle)) :
        SubSeq(hay, i + 1, i + Len(needle)) = needle

\* str.replace(old, new): left to right, non-overlapping, old non-empty
RECURSIVE Replace(_, _, _)
Replace(s, old, new) ==
    IF Len(s) < Len(old) THEN s
    ELSE IF SubSeq(s, 1, Len(old)) = old
         THEN new \o Replace(SubSeq(s, Len(old) + 1, Len(s)), old, new)
         ELSE <<Head(s)>> \o Replace(Tail(s), old, new)

\* variant of SlicePrefix: the cut made one entry late, seq[:n + 1]
SlicePrefixInclusive(seq, n) ==
    SubSeq(seq, 1, IF n + 1 > Len(seq) THEN Len(seq) ELSE n + 1)

\* variant of SlicePrefix: the cut taken from the wrong end, the last n entries
SliceSuffix(seq, n) ==
    SubSeq(seq, (IF n > Len(seq) THEN 0 ELSE Len(seq) - n) + 1, Len(seq))

\* seq[:n] for an integer n (a negative n counts from the end)
SlicePrefix(seq, n) ==
    LET stop == IF n < 0 THEN (IF Len(seq) + n < 0 THEN 0 ELSE Len(seq) + n)
                ELSE (IF n > Len(seq) THEN Len(seq) ELSE n)
    IN  SubSeq(seq, 1, stop)

(***************************************************************************)
(* The part of Python's re that the hook's patterns use: literals, `.`,    *)
(* the class [^/], postfix `*`, groups and alternation.  A run threads the *)
(* set of text offsets reachable so far through the pattern; the pattern   *)
(* is parsed to its end whatever that set is, so that a syntax error is    *)
(* found as re.compile finds it.                                           *)
(***************************************************************************)

ReError == [err |-> TRUE, next |-> 0, ends |-> {}]

\* whether a one-character atom accepts text character c
AtomAccepts(atom, c, ic) ==
    CASE atom.kind = "any"      -> TRUE
      [] atom.kind = "notslash" -> c # "/"
      [] OTHER                  -> IF ic THEN Lower(c) = Lower(atom.ch) ELSE c = atom.ch

\* offsets after one character accepted by atom
ReStep(S, atom, text, ic) ==
    {p + 1 : p \in {q \in S : q < Len(text) /\ AtomAccepts(atom, text[q + 1], ic)}}

\* offsets after any number of characters accepted by atom
ReStar(S, atom, text, ic) ==
    {q \in 0..Len(text) :
        \E p \in S : p <= q /\ \A k \in (p + 1)..q : AtomAccepts(atom, text[k], ic)}

\* index of the first "]" at or after i, or 0
RECURSIVE ReClassEnd(_, _)
ReClassEnd(re, i) ==
    IF i > Len(re) THEN 0
    ELSE IF re[i] = "]" THEN i ELSE ReClassEnd(re, i + 1)

RECURSIVE ReAlt(_, _, _, _, _)
RECURSIVE ReSeq(_, _, _, _, _)
RECURSIVE ReGroupStar(_, _, _, _, _, _)

\* a one-character atom ending before index j, then an optional `*`
ReAfterAtom(re, j, text, S, atom, ic) ==
    IF j <= Len(re) /\ re[j] = "*"
    THEN IF j + 1 <= Len(re) /\ re[j + 1] = "*"
         THEN ReError                                   \* multiple repeat
         ELSE ReSeq(re, j + 1, text, ReStar(S, atom, text, ic), ic)
    ELSE ReSeq(re, j, text, ReStep(S, atom, text, ic), ic)

\* one more round of (group)*: stop when the group adds no offset
ReGroupStarNext(re, i, text, S, ic, n, more) ==
    IF more = S THEN S ELSE ReGroupStar(re, i, text, more, ic, n - 1)

\* (group)* : the least set holding S and closed under the group that starts at i
ReGroupStar(re, i, text, S, ic, n) ==
    IF n = 0 THEN S
    ELSE ReGroupStarNext(re, i, text, S, ic, n, S \cup ReAlt(re, i, text, S, ic).ends)

\* a group opened at index i whose inside parsed as inner, then an optional `*`
ReGroup(re, i, text, S, ic, inner) ==
    IF inner.err \/ inner.next > Len(re)
    THEN ReError                                        \* missing )
    ELSE IF inner.next + 1 <= Len(re) /\ re[inner.next + 1] = "*"
    THEN IF inner.next + 2 <= Len(re) /\ re[inner.next + 2] = "*"
         THEN ReError                                   \* multiple repeat
         ELSE ReSeq(re, inner.next + 2, text,
                    ReGroupStar(re, i + 1, text, S, ic, Len(text) + 1), ic)
    ELSE ReSeq(re, inner.next + 1, text, inner.ends, ic)

\* a character set opened at index i and closed at index close (0: never closed)
ReClass(re, i, text, S, ic, close) ==
    IF close = 0 THEN ReError                           \* unterminated character set
    ELSE IF SubSeq(re, i, close) = <<"[", "^", "/", "]">>
    THEN ReAfterAtom(re, close + 1, text, S, [kind |-> "notslash", ch |-> "/"], ic)
    ELSE ReError                                        \* no other set occurs in the inputs

\* a concatenation, from index i up to `|`, `)` or the end
ReSeq(re, i, text, S, ic) ==
    IF i > Len(re) \/ re[i] \in {"|", ")"}
    THEN [err |-> FALSE, next |-> i, ends |-> S]
    ELSE IF re[i] = "*" THEN ReError                    \* nothing to repeat
    ELSE IF re[i] = "(" THEN ReGroup(re, i, text, S, ic, ReAlt(re, i + 1, text, S, ic))
    ELSE IF re[i] = "[" THEN ReClass(re, i, text, S, ic, ReClassEnd(re, i + 2))
    ELSE IF re[i] = "."
    THEN ReAfterAtom(re, i + 1, text, S, [kind |-> "any", ch |-> "."], ic)
    ELSE ReAfterAtom(re, i + 1, text, S, [kind |-> "lit", ch |-> re[i]], ic)

\* the offsets of two branches of an alternation
ReJoin(branch, rest) ==
    IF rest.err THEN ReError
    ELSE [err |-> FALSE, next |-> rest.next, ends |-> branch.ends \cup rest.ends]

\* after the first branch of an alternation: the other branches, if any
ReAltRest(re, text, S, ic, branch) ==
    IF branch.err THEN ReError
    ELSE IF branch.next <= Len(re) /\ re[branch.next] = "|"
    THEN ReJoin(branch, ReAlt(re, branch.next + 1, text, S, ic))
    ELSE branch

\* an alternation, from index i up to `)` or the end
ReAlt(re, i, text, S, ic) == ReAltRest(re, text, S, ic, ReSeq(re, i, text, S, ic))

\* the outcome of a whole pattern parsed as r: "error" (re.error), "match" or "nomatch"
ReOutcome(re, r) ==
    IF r.err \/ r.next <= Len(re) THEN "error"          \* r.next <= Len(re): unbalanced )
    ELSE IF r.ends # {} THEN "match" ELSE "nomatch"

\* the whole pattern run from the offsets S
ReRun(re, text, S, ic) == ReOutcome(re, ReAlt(re, 1, text, S, ic))

\* re.search(pattern, string, re.IGNORECASE)
re_search_ignorecase(pattern, string) == ReRun(pattern, string, 0..Len(string), TRUE)

\* re.match(pattern, string)
re_match(pattern, string) == ReRun(pattern, string, {0}, FALSE)

(***************************************************************************)
(* analyze_prompt                                                          *)
(***************************************************************************)

\* the items of skill_rules.get("skills", {}), in mapping order
SkillItems(rules) == Get(rules, "skills", <<>>)

\* the configuration of a skill: skill_rules["skills"][skill_name]
SkillConfig(rules, skill_name) ==
    (CHOOSE it \in {SkillItems(rules)[i] : i \in DOMAIN SkillItems(rules)} :
        it.name = skill_name).config

\* variant of KeywordScore: the operands of `in` exchanged
RECURSIVE KeywordScoreExchanged(_, _)
KeywordScoreExchanged(keywords, prompt_lower) ==
    IF keywords = <<>> THEN 0
    ELSE (IF IsSubstring(prompt_lower, StrLower(Head(keywords))) THEN 1 ELSE 0)
         + KeywordScoreExchanged(Tail(keywords), prompt_lower)

\* the keyword loop: one point for each keyword found in the lower-cased prompt
RECURSIVE KeywordScore(_, _)
KeywordScore(keywords, prompt_lower) ==
    IF keywords = <<>> THEN 0
    ELSE (IF IsSubstring(StrLower(Head(keywords)), prompt_lower) THEN 1 ELSE 0)
         + KeywordScore(Tail(keywords), prompt_lower)

\* variant of PatternPoints: a pattern weighted like a keyword
PatternPointsSingle(found) ==
    [raised |-> "none", points |-> IF found = "match" THEN 1 ELSE 0]

\* variant of PatternPoints: no handler around re.search
PatternPointsUncaught(found) ==
    CASE found = "match" -> [raised |-> "none", points |-> 2]
      [] found = "error" -> [raised |-> "re.error", points |-> 0]
      [] OTHER           -> [raised |-> "none", points |-> 0]

\* the try / except re.error: continue around one intent pattern, given what
\* re.search did: two points for a match, none for a miss, and re.error is caught
PatternPoints(found) ==
    CASE found = "match" -> [raised |-> "none", points |-> 2]
      [] found = "error" -> [raised |-> "none", points |-> 0]
      [] OTHER           -> [raised |-> "none", points |-> 0]

\* the points of one pattern added to those of the patterns after it; an exception
\* that leaves a pattern's body ends the loop
AddPoints(first, rest) ==
    IF first.raised # "none" THEN first
    ELSE IF rest.raised # "none" THEN rest
    ELSE [raised |-> "none", points |-> first.points + rest.points]

\* variant of PatternScore: re.error ends the pattern loop instead of skipping the
\* pattern
RECURSIVE PatternScoreBreak(_, _)
PatternScoreBreak(patterns, p) ==
    IF patterns = <<>> THEN [raised |-> "none", points |-> 0]
    ELSE IF re_search_ignorecase(Head(patterns), p) = "error"
    THEN [raised |-> "none", points |-> 0]
    ELSE AddPoints(PatternPoints(re_search_ignorecase(Head(patterns), p)),
                   PatternScoreBreak(Tail(patterns), p))

\* the intent-pattern loop
RECURSIVE PatternScore(_, _)
PatternScore(patterns, p) ==
    IF patterns = <<>> THEN [raised |-> "none", points |-> 0]
    ELSE AddPoints(PatternPoints(re_search_ignorecase(Head(patterns), p)),
                   PatternScore(Tail(patterns), p))

\* the default of meta.confidenceThreshold, 0.6, as <<numerator, denominator>>
DefaultConfidenceThreshold == <<3, 5>>

\* variant of ConfidenceMet: the ratio test cross-multiplied, without max_score > 0
ConfidenceMetUnguarded(score, max_score, threshold) ==
    score * threshold[2] >= threshold[1] * max_score

\* score / max_score >= threshold, for threshold = num / den, guarded by max_score > 0
ConfidenceMet(score, max_score, threshold) ==
    max_score > 0 /\ score * threshold[2] >= threshold[1] * max_score

\* triggers.get("keywords", []) and triggers.get("intentPatterns", [])
Keywords(skill_config) == Get(Get(skill_config, "promptTriggers", <<>>), "keywords", <<>>)
IntentPatterns(skill_config) ==
    Get(Get(skill_config, "promptTriggers", <<>>), "intentPatterns", <<>>)

\* variant of ConfidenceThreshold: the default is 0.5
ConfidenceThresholdDefaultHalf(rules) ==
    Get(Get(rules, "meta", <<>>), "confidenceThreshold", <<1, 2>>)

\* skill_rules.get("meta", {}).get("confidenceThreshold", 0.6)
ConfidenceThreshold(rules) ==
    Get(Get(rules, "meta", <<>>), "confidenceThreshold", DefaultConfidenceThreshold)

\* the end of the skill loop's body: the threshold test on the two scores
PromptVerdict(keyword_points, scored, max_score, threshold) ==
    [raised  |-> scored.raised,
     matched |-> scored.raised = "none"
                 /\ ConfidenceMet(keyword_points + scored.points, max_score, threshold)]

\* the body of the skill loop: whether the skill is added to matches
SkillPromptMatch(p, skill_config, rules) ==
    PromptVerdict(KeywordScore(Keywords(skill_config), StrLower(p)),
                  PatternScore(IntentPatterns(skill_config), p),
                  Len(Keywords(skill_config)) + Len(IntentPatterns(skill_config)) * 2,
                  ConfidenceThreshold(rules))

RECURSIVE PromptLoop(_, _, _, _)

\* the skill loop after the body ran for the first of items, with the outcome one
PromptLoopNext(items, p, rules, matches, one) ==
    IF one.raised # "none" THEN [raised |-> one.raised, matches |-> {}]
    ELSE PromptLoop(Tail(items), p, rules,
                    IF one.matched THEN matches \cup {Head(items).name} ELSE matches)

\* the skill loop over items, accumulating matches
PromptLoop(items, p, rules, matches) ==
    IF items = <<>> THEN [raised |-> "none", matches |-> matches]
    ELSE PromptLoopNext(items, p, rules, matches,
                        SkillPromptMatch(p, Head(items).config, rules))

\* analyze_prompt: [raised, matches]
analyze_prompt(p, rules) == PromptLoop(SkillItems(rules), p, rules, {})

(***************************************************************************)
(* analyze_file_context                                                    *)
(***************************************************************************)

\* str.strip() / lstrip() for the blank
RECURSIVE LStrip(_)
LStrip(s) == IF s # <<>> /\ Head(s) = " " THEN LStrip(Tail(s)) ELSE s

RECURSIVE RStrip(_)
RStrip(s) == IF s # <<>> /\ s[Len(s)] = " " THEN RStrip(SubSeq(s, 1, Len(s) - 1)) ELSE s

Strip(s) == LStrip(RStrip(s))

\* length of the leading run of non-blank characters
RECURSIVE WordLen(_)
WordLen(s) == IF s = <<>> \/ Head(s) = " " THEN 0 ELSE 1 + WordLen(Tail(s))

\* line.strip().split(maxsplit=1)
SplitMax1(line) ==
    LET s    == Strip(line)
        n    == WordLen(s)
        rest == LStrip(SubSeq(s, n + 1, Len(s)))
    IN  IF s = <<>> THEN <<>>
        ELSE IF rest = <<>> THEN <<SubSeq(s, 1, n)>>
        ELSE <<SubSeq(s, 1, n), rest>>

\* the loop over the lines of git's output, collecting modified_files
RECURSIVE ModifiedFiles(_)
ModifiedFiles(lines) ==
    IF lines = <<>> THEN <<>>
    ELSE LET parts == SplitMax1(Head(lines))
         IN  (IF Head(lines) # <<>> /\ Len(parts) = 2 THEN <<parts[2]>> ELSE <<>>)
             \o ModifiedFiles(Tail(lines))

\* variant of GlobToRegex: the stars are left as they are
GlobToRegexStarsKept(pattern) ==
    Replace(Replace(Replace(pattern, <<"{">>, <<"(">>), <<"}">>, <<")">>),
            <<",">>, <<"|">>)

\* variant of GlobToRegex: the commas of a brace group are left as they are
GlobToRegexCommaKept(pattern) ==
    Replace(Replace(Replace(Replace(pattern, <<"*", "*">>, <<".", "*">>),
                            <<"*">>, <<"[", "^", "/", "]", "*">>),
                    <<"{">>, <<"(">>),
            <<"}">>, <<")">>)

\* the glob pattern converted to a regex
GlobToRegex(pattern) ==
    LET stars  == Replace(Replace(pattern, <<"*", "*">>, <<".", "*">>),
                          <<"*">>, <<"[", "^", "/", "]", "*">>)
        braces == Replace(Replace(stars, <<"{">>, <<"(">>), <<"}">>, <<")">>)
    IN  Replace(braces, <<",">>, <<"|">>)

\* variant of GlobMatch: re.error is not caught
GlobMatchUncaught(found) ==
    CASE found = "match" -> [raised |-> "none", matched |-> TRUE]
      [] found = "error" -> [raised |-> "re.error", matched |-> FALSE]
      [] OTHER           -> [raised |-> "none", matched |-> FALSE]

\* the try / except re.error: continue around one (file, pattern) pair, given what
\* re.match did
GlobMatch(found) ==
    CASE found = "match" -> [raised |-> "none", matched |-> TRUE]
      [] found = "error" -> [raised |-> "none", matched |-> FALSE]
      [] OTHER           -> [raised |-> "none", matched |-> FALSE]

RECURSIVE PatternLoop(_, _)

\* variant of PatternLoopNext: the loop ends after its first pattern, matched or not
PatternLoopNextFirstOnly(path_patterns, file_path, one) == one

\* the pattern loop after its first pattern gave one: a match adds the skill and breaks
PatternLoopNext(path_patterns, file_path, one) ==
    IF one.raised # "none" \/ one.matched THEN one
    ELSE PatternLoop(Tail(path_patterns), file_path)

\* the pattern loop for one file
PatternLoop(path_patterns, file_path) ==
    IF path_patterns = <<>> THEN [raised |-> "none", matched |-> FALSE]
    ELSE PatternLoopNext(path_patterns, file_path,
                         GlobMatch(re_match(GlobToRegex(Head(path_patterns)), file_path)))

\* the outcome for one file joined to that of the files after it
JoinFiles(one, rest) ==
    IF one.raised # "none" THEN one
    ELSE IF rest.raised # "none" THEN rest
    ELSE [raised |-> "none", matched |-> one.matched \/ rest.matched]

\* the file loop for one skill: the break leaves only the pattern loop, so every
\* file is still tried
RECURSIVE FileLoop(_, _)
FileLoop(modified_files, path_patterns) ==
    IF modified_files = <<>> THEN [raised |-> "none", matched |-> FALSE]
    ELSE JoinFiles(PatternLoop(path_patterns, Head(modified_files)),
                   FileLoop(Tail(modified_files), path_patterns))

\* file_triggers.get("pathPatterns", [])
PathPatterns(skill_config) ==
    Get(Get(skill_config, "fileTriggers", <<>>), "pathPatterns", <<>>)

RECURSIVE ContextLoop(_, _, _)

\* the skill loop after the body ran for the first of items, with the outcome one
ContextLoopNext(items, modified_files, matches, one) ==
    IF one.raised # "none" THEN [raised |-> one.raised, matches |-> {}]
    ELSE ContextLoop(Tail(items), modified_files,
                     IF one.matched THEN matches \cup {Head(items).name} ELSE matches)

\* the skill loop over items, accumulating matches
ContextLoop(items, modified_files, matches) ==
    IF items = <<>> THEN [raised |-> "none", matches |-> matches]
    ELSE ContextLoopNext(items, modified_files, matches,
                         FileLoop(modified_files, PathPatterns(Head(items).config)))

\* variant of analyze_file_context: only FileNotFoundError is caught
analyze_file_context_timeout_uncaught(git, rules) ==
    IF git.outcome = "notfound" THEN [raised |-> "none", matches |-> {}]
    ELSE IF git.outcome = "timeout" THEN [raised |-> "TimeoutExpired", matches |-> {}]
    ELSE IF git.returncode # 0 THEN [raised |-> "none", matches |-> {}]
    ELSE ContextLoop(SkillItems(rules), ModifiedFiles(git.lines), {})

\* analyze_file_context: [raised, matches]
\* git: [outcome |-> "exit" | "timeout" | "notfound", returncode, lines]
analyze_file_context(git, rules) ==
    IF git.outcome \in {"timeout", "notfound"}
    THEN [raised |-> "none", matches |-> {}]     \* TimeoutExpired, FileNotFoundError: pass
    ELSE IF git.returncode # 0 THEN [raised |-> "none", matches |-> {}]
    ELSE ContextLoop(SkillItems(rules), ModifiedFiles(git.lines), {})

(***************************************************************************)
(* pyats_environment.py: PyATSEnvironment                                  *)
(***************************************************************************)

\* os.path.exists('/.dockerenv') or os.path.exists('/workspace')
is_in_container(h) == h.dockerenv \/ h.workspace

\* subprocess.run(['pyats', 'version'], timeout=10): returncode == 0, and False when
\* the program is not found or times out
check_local_pyats(h) ==
    CASE h.pyats \in {"notfound", "timeout"} -> FALSE
      [] OTHER -> h.pyats = "exit0"

\* subprocess.run(['docker', '--version'], timeout=5), then docker-compose.yml
check_docker_available(h) ==
    CASE h.docker \in {"notfound", "timeout"} -> FALSE
      [] h.docker # "exit0" -> FALSE
      [] OTHER -> h.compose

\* _detect_environment
detect_environment(h) ==
    IF is_in_container(h) THEN "container"
    ELSE IF check_local_pyats(h) THEN "local"
    ELSE IF check_docker_available(h) THEN "docker"
    ELSE "none"

\* _get_command_prefix: prefixes.get(self.env_type, '')
get_command_prefix(type) ==
    LET prefixes == [container |-> "", local |-> "",
                     docker |-> "docker-compose run --rm pyats ", none |-> ""]
    IN  Get(prefixes, type, "")

\* the dict returned at lines 97-102
NotAvailable ==
    [success |-> FALSE,
     error   |-> "pyATS not available. Run ./setup.sh or install locally.",
     stdout  |-> "",
     stderr  |-> "Environment setup required"]

\* the dict returned at lines 115-141, given what subprocess.run did with full_command
RunResult(full_command, outcome) ==
    CASE outcome \in {"exit0", "exit1"} ->
             [success |-> outcome = "exit0", returncode |-> IF outcome = "exit0" THEN 0 ELSE 1,
              stdout |-> "out", stderr |-> "err", command |-> full_command,
              environment |-> env_type]
      [] outcome = "timeout" ->
             [success |-> FALSE, error |-> "Command timed out", stdout |-> "",
              stderr |-> "Timeout", command |-> full_command, environment |-> env_type]
      [] OTHER ->
             [success |-> FALSE, error |-> "OSError", stdout |-> "", stderr |-> "OSError",
              command |-> full_command, environment |-> env_type]

\* the number of commands a run hands to subprocess.run at line 107
MaxRuns == 2

PyatsCommands == {"pyats version", "pyats run job job.py"}

RunOutcomes == {"exit0", "exit1", "timeout", "exception"}

\* lines 104-141: full_command is run and its outcome reported
RunCommand(command, outcome) ==
    /\ Len(executed) < MaxRuns
    /\ executed' = Append(executed, <<command_prefix, command>>)
    /\ returned' = RunResult(<<command_prefix, command>>, outcome)

\* variant of execute_pyats_command: no test of env_type
execute_pyats_command_unguarded(command, outcome) ==
    /\ RunCommand(command, outcome)
    /\ UNCHANGED <<env_type, command_prefix, host>>

\* execute_pyats_command(command)
execute_pyats_command(command, outcome) ==
    /\ IF env_type = "none"
       THEN returned' = NotAvailable /\ UNCHANGED executed
       ELSE RunCommand(command, outcome)
    /\ UNCHANGED <<env_type, command_prefix, host>>

\* get_environment_info: runs `pyats version` through execute_pyats_command when an
\* environment was detected
get_environment_info(outcome) ==
    /\ IF env_type # "none"
       THEN /\ Len(executed) < MaxRuns
            /\ executed' = Append(executed, <<command_prefix, "pyats version">>)
            /\ returned' = [environment_type |-> env_type,
                            command_prefix   |-> command_prefix,
                            pyats_available  |-> TRUE,
                            pyats_version    |-> IF outcome = "exit0" THEN "out"
                                                 ELSE "Unable to determine"]
       ELSE /\ returned' = [environment_type |-> env_type,
                            command_prefix   |-> command_prefix,
                            pyats_available  |-> FALSE]
            /\ UNCHANGED executed
    /\ UNCHANGED <<env_type, command_prefix, host>>

\* the machines a PyATSEnvironment can find itself on
ProbeOutcomes == {"exit0", "exit1", "notfound", "timeout"}

Hosts ==
    [dockerenv : BOOLEAN, workspace : BOOLEAN, pyats : ProbeOutcomes,
     docker : ProbeOutcomes, compose : BOOLEAN, setup_sh : BOOLEAN]

\* what a run of ./setup.sh can leave behind, whatever its exit status: pyATS, Docker
\* and docker-compose.yml may have changed, the rest has not
AfterSetup(h) ==
    {g \in Hosts : /\ g.dockerenv = h.dockerenv /\ g.workspace = h.workspace
                   /\ g.setup_sh = h.setup_sh}

\* lines 183-189: the environment is detected again after a successful setup
Redetected(h) ==
    /\ host' = h
    /\ env_type' = detect_environment(h)
    /\ command_prefix' = get_command_prefix(detect_environment(h))
    /\ returned' = [success |-> TRUE,
                    message |-> "Environment setup completed successfully",
                    environment |-> detect_environment(h), setup_output |-> "out"]

\* setup_environment
setup_environment(outcome) ==
    /\ IF env_type # "none"
       THEN /\ returned' = [success |-> TRUE, message |-> "pyATS already available",
                            environment |-> env_type]
            /\ UNCHANGED <<env_type, command_prefix, host>>
       ELSE IF ~host.setup_sh
       THEN /\ returned' = [success |-> FALSE, message |-> "No setup script found",
                            recommendations |-> 3]
            /\ UNCHANGED <<env_type, command_prefix, host>>
       ELSE IF outcome = "exit0"
       THEN \E h \in AfterSetup(host) : Redetected(h)
       ELSE IF outcome \in {"exit1", "timeout"}
       THEN /\ host' \in AfterSetup(host)
            /\ returned' = [success |-> FALSE,
                            message |-> IF outcome = "exit1" THEN "Environment setup failed"
                                        ELSE "Environment setup timed out",
                            error   |-> IF outcome = "exit1" THEN "err"
                                        ELSE "Setup took longer than 5 minutes"]
            /\ UNCHANGED <<env_type, command_prefix>>
       ELSE /\ returned' = [success |-> FALSE, message |-> "Environment setup error",
                            error |-> "OSError"]
            /\ UNCHANGED <<env_type, command_prefix, host>>
    /\ UNCHANGED executed

ExecutePyatsCommand ==
    \E command \in PyatsCommands, outcome \in RunOutcomes :
        execute_pyats_command(command, outcome)

GetEnvironmentInfo == \E outcome \in RunOutcomes : get_environment_info(outcome)

SetupEnvironment == \E outcome \in RunOutcomes : setup_environment(outcome)

\* no PyATSEnvironment object: the state of these variables in the runs of the hook
NoEnvironment ==
    /\ env_type = "none"
    /\ command_prefix = ""
    /\ host = [dockerenv |-> FALSE, workspace |-> FALSE, pyats |-> "notfound",
               docker |-> "notfound", compose |-> FALSE, setup_sh |-> FALSE]
    /\ executed = <<>>
    /\ returned = <<>>

(***************************************************************************)
(* main                                                                    *)
(***************************************************************************)

\* variant of load_skill_rules: FileNotFoundError is not caught
load_skill_rules_uncaught(file) ==
    CASE file.kind = "missing" ->
             [raised |-> "FileNotFoundError", warned |-> FALSE, value |-> <<>>]
      [] file.kind = "invalid" ->
             [raised |-> "JSONDecodeError", warned |-> FALSE, value |-> <<>>]
      [] OTHER ->
             [raised |-> "none", warned |-> FALSE, value |-> file.value]

\* load_skill_rules: [raised, value, warned]
load_skill_rules(file) ==
    CASE file.kind = "missing" ->
             [raised |-> "none", warned |-> TRUE,
              value  |-> [skills |-> <<>>, meta |-> <<>>]]
      [] file.kind = "invalid" ->
             [raised |-> "JSONDecodeError", warned |-> FALSE, value |-> <<>>]
      [] OTHER ->
             [raised |-> "none", warned |-> FALSE, value |-> file.value]

\* the default of meta.maxSimultaneousSkills
DefaultMaxSimultaneousSkills == 3

\* variant of PriorityOrder: a priority that is not in the table sorts after low
PriorityOrderUnknownLast(priority) ==
    LET priority_order == [high |-> 0, medium |-> 1, low |-> 2]
    IN  Get(priority_order, priority, 3)

\* priority_order.get(priority, 1)
PriorityOrder(priority) ==
    LET priority_order == [high |-> 0, medium |-> 1, low |-> 2]
    IN  Get(priority_order, priority, 1)

\* every order in which iterating a Python set of strings can yield S
SetOrders(S) ==
    {seq \in [1..Cardinality(S) -> S] :
        \A i, j \in 1..Cardinality(S) : i # j => seq[i] # seq[j]}

\* the loop that builds prioritized from all_matches, iterated in the given order
Prioritize(order, rules) ==
    [i \in 1..Len(order) |->
        <<order[i], PriorityOrder(Get(SkillConfig(rules, order[i]), "priority", "medium"))>>]

\* list.sort(key=lambda x: x[1]) is stable: x goes after every entry whose key is <= x's
RECURSIVE InsertByKey(_, _)
InsertByKey(sorted, x) ==
    IF sorted = <<>> THEN <<x>>
    ELSE IF Head(sorted)[2] <= x[2] THEN <<Head(sorted)>> \o InsertByKey(Tail(sorted), x)
    ELSE <<x>> \o sorted

RECURSIVE SortByKey(_, _)
SortByKey(seq, n) ==
    IF n = 0 THEN <<>> ELSE InsertByKey(SortByKey(seq, n - 1), seq[n])

\* " + ".join(reasons)
RECURSIVE Join(_, _)
Join(sep, parts) ==
    IF parts = <<>> THEN <<>>
    ELSE IF Len(parts) = 1 THEN parts
    ELSE <<Head(parts), sep>> \o Join(sep, Tail(parts))

\* variant of ReasonFor: the second test is an elif, so at most one reason is given
ReasonForFirstOnly(skill_name, pm, cm) ==
    IF skill_name \in pm THEN <<"Prompt keywords/patterns matched">>
    ELSE IF skill_name \in cm THEN <<"Modified files matched">>
    ELSE <<>>

\* the reasons of one retained skill
ReasonFor(skill_name, pm, cm) ==
    Join(" + ",
         (IF skill_name \in pm THEN <<"Prompt keywords/patterns matched">> ELSE <<>>)
         \o (IF skill_name \in cm THEN <<"Modified files matched">> ELSE <<>>))

\* the loop that builds matched_with_reason
MatchedWithReason(top, pm, cm) ==
    [i \in 1..Len(top) |-> <<top[i][1], ReasonFor(top[i][1], pm, cm)>>]

\* format_activation_message: the per-skill blocks between the banner and the footer
format_activation_message(matched_skills, rules) ==
    IF matched_skills = <<>> THEN <<>>
    ELSE <<"SKILL ACTIVATION CHECK">>
         \o [i \in 1..Len(matched_skills) |->
               [activation_msg |->
                    Get(SkillConfig(rules, matched_skills[i][1]), "activationMessage",
                        <<"Consider using ", matched_skills[i][1], " skill">>),
                reason   |-> matched_skills[i][2],
                location |-> <<".claude-library/skills/", matched_skills[i][1], "/">>]]
         \o <<"Skills provide context-specific best practices and patterns.">>

\* the line appended to the activation log (the timestamp left out)
LogEntry(mwr, p) ==
    [skills |-> [i \in 1..Len(mwr) |-> mwr[i][1]], prompt |-> SlicePrefix(p, 100)]

\* lines 129-133
Start ==
    /\ pc = "start"
    /\ IF Len(argv) < 2
       THEN pc' = "done" /\ UNCHANGED prompt
       ELSE pc' = "load" /\ prompt' = argv[2]
    /\ UNCHANGED <<argv, rulesFile, gitResult, skill_rules, prompt_matches,
                   context_matches, prioritized, top_matches, matched_with_reason,
                   stdout, stderr, logFile, error>>

\* variant of RulesLoaded: main does not return when there are no skills
RulesLoadedNoReturn(loaded) ==
    /\ error' = loaded.raised
    /\ stderr' = IF loaded.warned THEN Append(stderr, "Skill rules not found") ELSE stderr
    /\ skill_rules' = loaded.value
    /\ pc' = IF loaded.raised # "none" THEN "done" ELSE "check_enabled"

\* load_skill_rules returns loaded.value, or raises and ends main; no skills: return
RulesLoaded(loaded) ==
    /\ error' = loaded.raised
    /\ stderr' = IF loaded.warned THEN Append(stderr, "Skill rules not found") ELSE stderr
    /\ skill_rules' = loaded.value
    /\ pc' = IF loaded.raised # "none" THEN "done"
             ELSE IF Get(loaded.value, "skills", <<>>) = <<>> THEN "done"
             ELSE "check_enabled"

\* lines 135-138
LoadRules ==
    /\ pc = "load"
    /\ RulesLoaded(load_skill_rules(rulesFile))
    /\ UNCHANGED <<argv, rulesFile, gitResult, prompt, prompt_matches, context_matches,
                   prioritized, top_matches, matched_with_reason, stdout, logFile>>

\* variant of CheckEnabled: the switch is not consulted
CheckEnabledIgnored ==
    /\ pc = "check_enabled"
    /\ pc' = "analyze_prompt"
    /\ UNCHANGED <<argv, rulesFile, gitResult, prompt, skill_rules, prompt_matches,
                   context_matches, prioritized, top_matches, matched_with_reason,
                   stdout, stderr, logFile, error>>

\* lines 140-142
CheckEnabled ==
    /\ pc = "check_enabled"
    /\ pc' = IF Get(Get(skill_rules, "meta", <<>>), "autoActivationEnabled", TRUE)
             THEN "analyze_prompt" ELSE "done"
    /\ UNCHANGED <<argv, rulesFile, gitResult, prompt, skill_rules, prompt_matches,
                   context_matches, prioritized, top_matches, matched_with_reason,
                   stdout, stderr, logFile, error>>

\* the call of line 145 returns result.matches, or raises and ends main
PromptAnalyzed(result) ==
    /\ prompt_matches' = result.matches
    /\ error' = result.raised
    /\ pc' = IF result.raised # "none" THEN "done" ELSE "analyze_files"

\* the call of line 146 returns result.matches, or raises and ends main
ContextAnalyzed(result) ==
    /\ context_matches' = result.matches
    /\ error' = result.raised
    /\ pc' = IF result.raised # "none" THEN "done" ELSE "rank"

\* line 145
AnalyzePrompt ==
    /\ pc = "analyze_prompt"
    /\ PromptAnalyzed(analyze_prompt(prompt, skill_rules))
    /\ UNCHANGED <<argv, rulesFile, gitResult, prompt, skill_rules, context_matches,
                   prioritized, top_matches, matched_with_reason, stdout, stderr,
                   logFile>>

\* line 146
AnalyzeFileContext ==
    /\ pc = "analyze_files"
    /\ ContextAnalyzed(analyze_file_context(gitResult, skill_rules))
    /\ UNCHANGED <<argv, rulesFile, gitResult, prompt, skill_rules, prompt_matches,
                   prioritized, top_matches, matched_with_reason, stdout, stderr,
                   logFile>>

\* variant of Sorted: the list left in iteration order
Unsorted(seq) == seq

\* prioritized.sort(key=lambda x: x[1])
Sorted(seq) == SortByKey(seq, Len(seq))

\* skill_rules.get("meta", {}).get("maxSimultaneousSkills", 3)
MaxSimultaneousSkills(rules) ==
    Get(Get(rules, "meta", <<>>), "maxSimultaneousSkills", DefaultMaxSimultaneousSkills)

\* variant of MatchOrders: the file-context matches left out of all_matches
MatchOrdersPromptOnly(pm, cm) == SetOrders(pm)

\* variant of MatchOrders: the two sets visited one after the other, not their union
MatchOrdersConcat(pm, cm) == {a \o b : a \in SetOrders(pm), b \in SetOrders(cm)}

\* every order in which the loop over all_matches = prompt_matches | context_matches
\* can visit the matched skills
MatchOrders(pm, cm) == SetOrders(pm \cup cm)

\* lines 161-162, for the sorted list
Ranked(sorted, max_skills) ==
    /\ prioritized' = sorted
    /\ top_matches' = SlicePrefix(sorted, max_skills)

\* lines 148-162
Rank ==
    /\ pc = "rank"
    /\ \E order \in MatchOrders(prompt_matches, context_matches) :
          Ranked(Sorted(Prioritize(order, skill_rules)), MaxSimultaneousSkills(skill_rules))
    /\ pc' = "reasons"
    /\ UNCHANGED <<argv, rulesFile, gitResult, prompt, skill_rules, prompt_matches,
                   context_matches, matched_with_reason, stdout, stderr, logFile, error>>

\* lines 164-173
Reasons ==
    /\ pc = "reasons"
    /\ matched_with_reason' = MatchedWithReason(top_matches, prompt_matches, context_matches)
    /\ pc' = "output"
    /\ UNCHANGED <<argv, rulesFile, gitResult, prompt, skill_rules, prompt_matches,
                   context_matches, prioritized, top_matches, stdout, stderr, logFile,
                   error>>

\* lines 175-182
Output ==
    /\ pc = "output"
    /\ IF matched_with_reason # <<>>
       THEN /\ stdout' = Append(stdout,
                                format_activation_message(matched_with_reason, skill_rules))
            /\ pc' = IF Get(Get(skill_rules, "config", <<>>), "log_activations", FALSE)
                     THEN "log" ELSE "done"
       ELSE /\ pc' = "done"
            /\ UNCHANGED stdout
    /\ UNCHANGED <<argv, rulesFile, gitResult, prompt, skill_rules, prompt_matches,
                   context_matches, prioritized, top_matches, matched_with_reason,
                   stderr, logFile, error>>

\* variant of LogActivation: an exception raised while writing the log leaves main
LogActivationUncaught ==
    /\ pc = "log"
    /\ \E written \in BOOLEAN :
          /\ logFile' = IF written THEN Append(logFile, LogEntry(matched_with_reason, prompt))
                        ELSE logFile
          /\ error' = IF written THEN error ELSE "OSError"
    /\ pc' = "done"
    /\ UNCHANGED <<argv, rulesFile, gitResult, prompt, skill_rules, prompt_matches,
                   context_matches, prioritized, top_matches, matched_with_reason,
                   stdout, stderr>>

\* lines 183-191: the write succeeds, or it raises and the exception is swallowed
LogActivation ==
    /\ pc = "log"
    /\ \E written \in BOOLEAN :
          logFile' = IF written THEN Append(logFile, LogEntry(matched_with_reason, prompt))
                     ELSE logFile
    /\ pc' = "done"
    /\ UNCHANGED <<argv, rulesFile, gitResult, prompt, skill_rules, prompt_matches,
                   context_matches, prioritized, top_matches, matched_with_reason,
                   stdout, stderr, error>>

Next ==
    \/ Start /\ UNCHANGED pyatsVars
    \/ LoadRules /\ UNCHANGED pyatsVars
    \/ CheckEnabled /\ UNCHANGED pyatsVars
    \/ AnalyzePrompt /\ UNCHANGED pyatsVars
    \/ AnalyzeFileContext /\ UNCHANGED pyatsVars
    \/ Rank /\ UNCHANGED pyatsVars
    \/ Reasons /\ UNCHANGED pyatsVars
    \/ Output /\ UNCHANGED pyatsVars
    \/ LogActivation /\ UNCHANGED pyatsVars

(***************************************************************************)
(* Inputs: the texts, rule files and git outcomes the runs are drawn from  *)
(***************************************************************************)

MaxSkills == 3

SkillNames == <<"alpha", "beta", "gamma", "delta", "epsilon">>

ScriptName    == <<"s", "k", "i", "l", "l", "_", "a", "c", "t", "i", "v", "a", "t", "o", "r", ".", "p", "y">>
PromptVoip    == <<"c", "h", "e", "c", "k", " ", "v", "o", "i", "p", " ", "q", "u", "a", "l", "i", "t", "y">>
PromptNetwork == <<"c", "h", "e", "c", "k", " ", "n", "e", "t", "w", "o", "r", "k">>
PromptUpper   == <<"C", "h", "e", "c", "k", " ", "V", "o", "I", "P">>
PromptEmpty   == <<>>
KwVoip        == <<"v", "o", "i", "p">>
KwVoipMixed   == <<"V", "o", "I", "P">>
KwNetwork     == <<"n", "e", "t", "w", "o", "r", "k">>
PatCheckQual  == <<"c", "h", "e", "c", "k", ".", "*", "q", "u", "a", "l", "i", "t", "y">>
PatSipOrVoip  == <<"(", "S", "I", "P", "|", "v", "o", "i", "p", ")", " ", "q">>
PatUnclosed   == <<"(", "v", "o", "i", "p">>
PatBadRepeat  == <<"*", "v", "o", "i", "p">>
PatAnything   == <<".", "*">>
GlobSrcPy     == <<"s", "r", "c", "/", "*", ".", "p", "y">>
LineAppPy     == <<" ", "M", " ", "s", "r", "c", "/", "a", "p", "p", ".", "p", "y">>
LineReadme    == <<"?", "?", " ", "R", "E", "A", "D", "M", "E", ".", "m", "d">>

\* what `git status --short` can do
GitModified == [outcome |-> "exit", returncode |-> 0, lines |-> <<LineAppPy, LineReadme>>]
GitClean    == [outcome |-> "exit", returncode |-> 0, lines |-> <<<<>>>>]
GitNotRepo  == [outcome |-> "exit", returncode |-> 128, lines |-> <<<<>>>>]
GitTimeout  == [outcome |-> "timeout", returncode |-> 0, lines |-> <<>>]
GitMissing  == [outcome |-> "notfound", returncode |-> 0, lines |-> <<>>]

\* a JSON object with one optional member
Member(key, values) == {key :> v : v \in values} \cup {<<>>}

PromptOnly == [promptTriggers |-> [keywords |-> <<KwVoip>>, intentPatterns |-> <<>>]]
FileOnly   == [fileTriggers |-> [pathPatterns |-> <<GlobSrcPy>>]]
PromptAndFile == PromptOnly @@ FileOnly

\* skills.items() of a rules file whose i-th skill has the configuration configs[i]
Items(configs) == [i \in 1..Len(configs) |-> [name |-> SkillNames[i], config |-> configs[i]]]

RulesJson(value) == [kind |-> "json", value |-> value]

\* ranking runs: up to MaxSkills skills of every priority, each matched by the prompt
\* or by a modified file, under every cap from 0 to MaxSkills
RankingSkillConfigs ==
    {t @@ ("priority" :> p) : t \in {PromptOnly, FileOnly},
                               p \in {"high", "medium", "low", "urgent"}}

RankingInputs ==
    {[argv      |-> <<ScriptName, PromptVoip>>,
      gitResult |-> GitModified,
      rulesFile |-> RulesJson([skills |-> Items(configs),
                               meta   |-> [autoActivationEnabled |-> TRUE,
                                           confidenceThreshold   |-> <<1, 2>>,
                                           maxSimultaneousSkills |-> m]])] :
        configs \in UNION {[1..k -> RankingSkillConfigs] : k \in 1..MaxSkills},
        m \in 0..MaxSkills}

\* meta runs: three fixed skills under every presence and value of the meta members,
\* every prompt and every git outcome
MetaSkills ==
    Items(<<PromptAndFile @@ ("priority" :> "high"),
            PromptOnly,
            FileOnly @@ ("priority" :> "low")>>)

MetaObjects ==
    {e @@ c @@ m : e \in Member("autoActivationEnabled", BOOLEAN),
                   c \in Member("confidenceThreshold", {<<0, 1>>, <<1, 2>>, <<1, 1>>}),
                   m \in Member("maxSimultaneousSkills", 0..2)}

MetaInputs ==
    {[argv      |-> <<ScriptName, p>>,
      gitResult |-> g,
      rulesFile |-> RulesJson([skills |-> MetaSkills, meta |-> meta])] :
        p \in {PromptVoip, PromptNetwork, PromptEmpty},
        g \in {GitModified, GitClean, GitNotRepo, GitTimeout, GitMissing},
        meta \in MetaObjects}

\* environment runs: no prompt argument, an absent, unreadable or empty rules file,
\* a rules file without meta, and the logging switch
EnvInputs ==
    {[argv |-> a, gitResult |-> GitModified, rulesFile |-> f] :
        a \in {<<ScriptName>>, <<ScriptName, PromptVoip>>},
        f \in {[kind |-> "missing", value |-> <<>>],
               [kind |-> "invalid", value |-> <<>>],
               RulesJson(<<>>),
               RulesJson([meta |-> <<>>]),
               RulesJson([skills |-> <<>>, meta |-> [autoActivationEnabled |-> TRUE]]),
               RulesJson([skills |-> <<>>, config |-> [log_activations |-> TRUE]]),
               RulesJson([config |-> [log_activations |-> TRUE]]),
               RulesJson([skills |-> MetaSkills])}
           \cup {RulesJson([skills |-> MetaSkills] @@ c) :
                    c \in Member("config", Member("log_activations", BOOLEAN))}}

\* default runs: five skills, of which four are matched (one with a score of exactly
\* 0.6, one left out with 0.5), under a meta object that is absent, empty, or has some
\* of its members
DefaultsSkills ==
    Items(<<[promptTriggers |-> [keywords |-> <<KwVoip>>,
                                 intentPatterns |-> <<PatUnclosed, PatCheckQual>>],
             priority |-> "high"],
            FileOnly,
            PromptAndFile @@ ("priority" :> "low"),
            PromptOnly,
            [promptTriggers |-> [keywords |-> <<KwVoip, KwNetwork>>]]>>)

DefaultsMetas ==
    {<<>>,
     [autoActivationEnabled |-> TRUE],
     [confidenceThreshold |-> <<3, 5>>, maxSimultaneousSkills |-> 3],
     [autoActivationEnabled |-> TRUE, confidenceThreshold |-> <<3, 5>>,
      maxSimultaneousSkills |-> 3]}

DefaultsInputs ==
    {[argv |-> <<ScriptName, PromptVoip>>, gitResult |-> GitModified, rulesFile |-> f] :
        f \in {RulesJson([skills |-> DefaultsSkills])}
               \cup {RulesJson([skills |-> DefaultsSkills, meta |-> m]) : m \in DefaultsMetas}}

\* logging runs: the logging switch absent, false and true, with and without matches
LogInputs ==
    {[argv      |-> <<ScriptName, p>>,
      gitResult |-> g,
      rulesFile |-> RulesJson([skills |-> MetaSkills] @@ c)] :
        p \in {PromptVoip, PromptNetwork},
        g \in {GitModified, GitClean},
        c \in Member("config", Member("log_activations", BOOLEAN))}

Inputs == RankingInputs \cup MetaInputs \cup EnvInputs \cup DefaultsInputs \cup LogInputs

Init ==
    /\ \E in \in Inputs :
          /\ argv = in.argv
          /\ rulesFile = in.rulesFile
          /\ gitResult = in.gitResult
    /\ pc = "start"
    /\ prompt = <<>>
    /\ skill_rules = <<>>
    /\ prompt_matches = {}
    /\ context_matches = {}
    /\ prioritized = <<>>
    /\ top_matches = <<>>
    /\ matched_with_reason = <<>>
    /\ stdout = <<>>
    /\ stderr = <<>>
    /\ logFile = <<>>
    /\ error = "none"
    /\ NoEnvironment

Spec == Init /\ [][Next]_vars

(***************************************************************************)
(* The prompt scorer on its own: analyze_prompt applied, at the point      *)
(* where main calls it, to every prompt and rules object of PromptInputs   *)
(***************************************************************************)

MaxPromptSkills == 2

PromptTriggerSets ==
    {[keywords |-> k, intentPatterns |-> i] :
        k \in {<<>>, <<KwVoip>>, <<KwVoipMixed, KwNetwork>>},
        i \in {<<>>, <<PatCheckQual>>, <<PatSipOrVoip, PatBadRepeat>>,
               <<PatUnclosed, PatCheckQual>>, <<PatAnything>>}}

PromptSkillConfigs == {[promptTriggers |-> t] : t \in PromptTriggerSets} \cup {<<>>}

PromptRules ==
    {[skills |-> Items(configs), meta |-> meta] :
        configs \in UNION {[1..k -> PromptSkillConfigs] : k \in 1..MaxPromptSkills},
        meta \in Member("confidenceThreshold", {<<0, 1>>, <<1, 2>>, <<3, 4>>, <<1, 1>>})}

PromptTexts == {PromptVoip, PromptNetwork, PromptUpper, PromptEmpty}

InitPrompt ==
    /\ \E p \in PromptTexts, rules \in PromptRules :
          /\ argv = <<ScriptName, p>>
          /\ rulesFile = RulesJson(rules)
          /\ prompt = p
          /\ skill_rules = rules
    /\ gitResult = GitClean
    /\ pc = "analyze_prompt"
    /\ prompt_matches = {}
    /\ context_matches = {}
    /\ prioritized = <<>>
    /\ top_matches = <<>>
    /\ matched_with_reason = <<>>
    /\ stdout = <<>>
    /\ stderr = <<>>
    /\ logFile = <<>>
    /\ error = "none"
    /\ NoEnvironment

NextPrompt == AnalyzePrompt /\ UNCHANGED pyatsVars

SpecPrompt == InitPrompt /\ [][NextPrompt]_vars

(***************************************************************************)
(* What the properties read: the configuration as the rules file gives it  *)
(* (not as main copied it), and the ActivationResult, matched_with_reason  *)
(***************************************************************************)

ConfigValue  == IF rulesFile.kind = "json" THEN rulesFile.value ELSE <<>>
ConfigSkills == Get(ConfigValue, "skills", <<>>)
ConfigMeta   == Get(ConfigValue, "meta", <<>>)
ConfigNames  == {ConfigSkills[i].name : i \in DOMAIN ConfigSkills}

\* position of a skill in the configuration: its discovery order
ConfigIndex(name) == CHOOSE i \in DOMAIN ConfigSkills : ConfigSkills[i].name = name

\* whether the skill's configured priority is one of high, medium, low, and its level
HasNamedPriority(name) ==
    /\ "priority" \in DOMAIN ConfigSkills[ConfigIndex(name)].config
    /\ ConfigSkills[ConfigIndex(name)].config.priority \in {"high", "medium", "low"}

PriorityLevel(name) ==
    LET priority == ConfigSkills[ConfigIndex(name)].config.priority
    IN  CASE priority = "high" -> 3 [] priority = "medium" -> 2 [] OTHER -> 1

AutoActivationOn == Get(ConfigMeta, "autoActivationEnabled", TRUE)

ResultNames   == [i \in DOMAIN matched_with_reason |-> matched_with_reason[i][1]]
ResultNameSet == {ResultNames[i] : i \in DOMAIN ResultNames}
Candidates    == prompt_matches \cup context_matches
ResultBuilt   == pc \in {"output", "log", "done"}

(***************************************************************************)
(* C1 - C7: the activation engine                                          *)
(***************************************************************************)

\* C1: the ActivationResult is non-empty only if autoActivationEnabled is true and
\* some configured skill was matched by the prompt scorer or the file-context scorer;
\* with autoActivationEnabled false nothing is produced and nothing is printed.
ThmC1_NonEmptyOnlyIfEnabledAndMatched ==
    /\ matched_with_reason # <<>> =>
          /\ AutoActivationOn
          /\ \E name \in ConfigNames : name \in Candidates /\ name \in ResultNameSet
    /\ ~AutoActivationOn => matched_with_reason = <<>> /\ stdout = <<>>

WitC1_NonEmptyResult ==
    pc = "done" /\ matched_with_reason # <<>> /\ AutoActivationOn

\* C2: the ActivationResult has at most meta.maxSimultaneousSkills entries, and none
\* when that number is 0.
ThmC2_AtMostMaxSimultaneousSkills ==
    "maxSimultaneousSkills" \in DOMAIN ConfigMeta =>
        Len(matched_with_reason) <= ConfigMeta.maxSimultaneousSkills

WitC2_Truncated ==
    /\ pc = "done"
    /\ "maxSimultaneousSkills" \in DOMAIN ConfigMeta
    /\ ConfigMeta.maxSimultaneousSkills >= 1
    /\ Cardinality(Candidates) > ConfigMeta.maxSimultaneousSkills
    /\ Len(matched_with_reason) = ConfigMeta.maxSimultaneousSkills

\* C3: no skill identifier appears twice in the ActivationResult, also when the skill
\* was matched both by the prompt and by the modified files.
ThmC3_NoDuplicate ==
    \A i, j \in DOMAIN matched_with_reason : i # j => ResultNames[i] # ResultNames[j]

WitC3_MatchedBothWays ==
    /\ pc = "done"
    /\ Len(matched_with_reason) >= 2
    /\ \E i \in DOMAIN matched_with_reason :
          ResultNames[i] \in prompt_matches \cap context_matches

\* C4: the ActivationResult is ordered by priority: of two entries whose priorities
\* are among high, medium and low, the earlier one's is not the lower.
ThmC4_OrderedByPriority ==
    \A i, j \in DOMAIN matched_with_reason :
        (i < j /\ HasNamedPriority(ResultNames[i]) /\ HasNamedPriority(ResultNames[j]))
            => PriorityLevel(ResultNames[i]) >= PriorityLevel(ResultNames[j])

WitC4_HighBeforeLow ==
    /\ pc = "done"
    /\ \E i, j \in DOMAIN matched_with_reason :
          /\ i < j
          /\ HasNamedPriority(ResultNames[i]) /\ HasNamedPriority(ResultNames[j])
          /\ PriorityLevel(ResultNames[i]) = 3 /\ PriorityLevel(ResultNames[j]) = 1
          /\ ConfigIndex(ResultNames[i]) > ConfigIndex(ResultNames[j])

\* C5: two entries of the ActivationResult with the same priority stand in their
\* discovery order, the order of the skills in the configuration.
CexC5_EqualPriorityKeepsDiscoveryOrder ==
    \A i, j \in DOMAIN matched_with_reason :
        (/\ i < j
         /\ Get(ConfigSkills[ConfigIndex(ResultNames[i])].config, "priority", "medium")
              = Get(ConfigSkills[ConfigIndex(ResultNames[j])].config, "priority", "medium"))
            => ConfigIndex(ResultNames[i]) < ConfigIndex(ResultNames[j])

\* C6: with maxSimultaneousSkills = 1 and three skills of priorities high, high, low,
\* all matched by the prompt, the ActivationResult is the first high skill alone.
CexC6_FirstHighRetained ==
    (/\ pc = "done"
     /\ argv = <<ScriptName, PromptVoip>>
     /\ Len(ConfigSkills) = 3
     /\ \A i \in 1..3 : ConfigSkills[i].config
                          = PromptOnly @@ ("priority" :> <<"high", "high", "low">>[i])
     /\ ConfigMeta = [autoActivationEnabled |-> TRUE, confidenceThreshold |-> <<1, 2>>,
                      maxSimultaneousSkills |-> 1])
        => ResultNames = <<ConfigSkills[1].name>>

\* C7: truncation never keeps a skill of lower priority while it drops a matched skill
\* of higher priority (priorities among high, medium and low).
ThmC7_TruncationKeepsHigherPriority ==
    ResultBuilt =>
        \A dropped \in Candidates \ ResultNameSet, kept \in ResultNameSet :
            (HasNamedPriority(dropped) /\ HasNamedPriority(kept))
                => PriorityLevel(kept) >= PriorityLevel(dropped)

WitC7_LowerPriorityDropped ==
    /\ pc = "done"
    /\ \E dropped \in Candidates \ ResultNameSet, kept \in ResultNameSet :
          /\ HasNamedPriority(dropped) /\ HasNamedPriority(kept)
          /\ PriorityLevel(kept) > PriorityLevel(dropped)
          /\ ConfigIndex(kept) > ConfigIndex(dropped)

(***************************************************************************)
(* C8 - C10: the prompt scorer                                             *)
(***************************************************************************)

\* the keyword occurs in the text, letter case set aside
KeywordOccurs(keyword, text) ==
    \E off \in 0..(Len(text) - Len(keyword)) :
        \A k \in 1..Len(keyword) : Lower(keyword[k]) = Lower(text[off + k])

\* the score and maxScore of a skill configuration as the scorer is specified
SpecifiedScore(config, text) ==
    Cardinality({i \in DOMAIN Keywords(config) : KeywordOccurs(Keywords(config)[i], text)})
    + 2 * Cardinality({j \in DOMAIN IntentPatterns(config) :
                          re_search_ignorecase(IntentPatterns(config)[j], text) = "match"})

SpecifiedMaxScore(config) == Len(Keywords(config)) + 2 * Len(IntentPatterns(config))

ConfigThreshold == Get(ConfigMeta, "confidenceThreshold", DefaultConfidenceThreshold)

\* analyze_prompt has returned
PromptScored == pc # "analyze_prompt" /\ error = "none"

\* C8: a skill is matched by the prompt exactly when maxScore > 0 and
\* score / maxScore >= confidenceThreshold, with one point per keyword that occurs in
\* the prompt and two per intent pattern that matches it; with keywords ["voip"], no
\* pattern and threshold 0.5, "check voip quality" matches and "check network" does not.
ThmC8_MatchedIffScoreRatioMeetsThreshold ==
    PromptScored =>
        \A i \in DOMAIN ConfigSkills :
            /\ ConfigSkills[i].name \in prompt_matches
                 <=> /\ SpecifiedMaxScore(ConfigSkills[i].config) > 0
                     /\ SpecifiedScore(ConfigSkills[i].config, argv[2]) * ConfigThreshold[2]
                          >= ConfigThreshold[1] * SpecifiedMaxScore(ConfigSkills[i].config)
            /\ (ConfigSkills[i].config = PromptOnly /\ ConfigThreshold = <<1, 2>>) =>
                 /\ argv[2] = PromptVoip => ConfigSkills[i].name \in prompt_matches
                 /\ argv[2] = PromptNetwork => ConfigSkills[i].name \notin prompt_matches

WitC8_RatioEqualsThreshold ==
    /\ PromptScored
    /\ ConfigThreshold = <<3, 4>>
    /\ \E i \in DOMAIN ConfigSkills :
          /\ ConfigSkills[i].name \in prompt_matches
          /\ Keywords(ConfigSkills[i].config) = <<KwVoipMixed, KwNetwork>>
          /\ IntentPatterns(ConfigSkills[i].config) = <<PatCheckQual>>
          /\ SpecifiedScore(ConfigSkills[i].config, argv[2]) = 3

\* C9: a skill without keywords and without intent patterns is never matched by the
\* prompt, whatever the prompt and the threshold, 0 included.
ThmC9_NoTriggersNeverMatches ==
    PromptScored =>
        \A i \in DOMAIN ConfigSkills :
            SpecifiedMaxScore(ConfigSkills[i].config) = 0
                => ConfigSkills[i].name \notin prompt_matches

WitC9_NoTriggersThresholdZero ==
    /\ PromptScored
    /\ ConfigThreshold = <<0, 1>>
    /\ prompt_matches # {}
    /\ \E i \in DOMAIN ConfigSkills :
          /\ "promptTriggers" \in DOMAIN ConfigSkills[i].config
          /\ SpecifiedMaxScore(ConfigSkills[i].config) = 0

\* the pattern does not compile
Malformed(pattern) == re_search_ignorecase(pattern, <<>>) = "error"

WellFormed(pattern) == ~Malformed(pattern)

HasMalformed(config) ==
    \E j \in DOMAIN IntentPatterns(config) : Malformed(IntentPatterns(config)[j])

\* the rules with the malformed intent patterns of the i-th skill taken out
WithoutMalformed(rules, i) ==
    [rules EXCEPT !.skills[i].config.promptTriggers.intentPatterns =
                      SelectSeq(@, WellFormed)]

\* C10: a malformed intent pattern raises nothing, and the skills other than its own
\* are matched exactly as they are with the malformed pattern taken out.
ThmC10_MalformedPatternSparesSiblings ==
    pc # "analyze_prompt" =>
        /\ error = "none"
        /\ \A i \in DOMAIN ConfigSkills :
              HasMalformed(ConfigSkills[i].config) =>
                  prompt_matches \ {ConfigSkills[i].name}
                    = analyze_prompt(argv[2], WithoutMalformed(ConfigValue, i)).matches
                        \ {ConfigSkills[i].name}

WitC10_SiblingMatchedAfterMalformed ==
    /\ pc = "analyze_files"
    /\ \E i, j \in DOMAIN ConfigSkills :
          /\ i < j
          /\ HasMalformed(ConfigSkills[i].config)
          /\ ConfigSkills[j].name \in prompt_matches
          /\ ConfigSkills[i].name \notin prompt_matches


(***************************************************************************)
(* The file-context scorer on its own: analyze_file_context applied, at    *)
(* the point where main calls it, to every rules object of FileRules and   *)
(* every outcome of git status in GitResults                               *)
(***************************************************************************)

MaxFileSkills == 2

GlobAnyXPy     == <<"*", "*", "/", "x", ".", "p", "y">>
GlobTestAny    == <<"*", "*", "/", "*", ".", "t", "e", "s", "t", ".", "*">>
GlobBraceTsJs  == <<"s", "r", "c", "/", "*", ".", "{", "t", "s", ",", "j", "s", "}">>
GlobSrcTs      == <<"s", "r", "c", "/", "*", ".", "t", "s">>
GlobSrcJs      == <<"s", "r", "c", "/", "*", ".", "j", "s">>
GlobUnbalanced == <<"s", "r", "c", "/", "{", "a", ",", "b">>
GlobStarEnv    == <<"*", ".", "e", "n", "v">>
GlobAnyEnv     == <<"*", "*", ".", "e", "n", "v">>
GlobAppPy      == <<"s", "r", "c", "/", "a", "p", "p", ".", "p", "y">>
LineDeepXPy    == <<" ", "M", " ", "a", "/", "b", "/", "x", ".", "p", "y">>
LineAppPyc     == <<"?", "?", " ", "s", "r", "c", "/", "a", "p", "p", ".", "p", "y", "c">>
LineAppTestTs  == <<"M", " ", " ", "s", "r", "c", "/", "a", "p", "p", ".", "t", "e", "s", "t", ".", "t", "s">>
LineAppTs      == <<"M", " ", " ", "s", "r", "c", "/", "a", "p", "p", ".", "t", "s">>
LineAppJs      == <<" ", "M", " ", "s", "r", "c", "/", "a", "p", "p", ".", "j", "s">>
LineEnv        == <<"?", "?", " ", ".", "e", "n", "v">>
LineAppUnderPy == <<"?", "?", " ", "s", "r", "c", "/", "a", "p", "p", "_", "p", "y">>

\* the pathPatterns lists of the skills
PathPatternLists ==
    {<<>>, <<GlobSrcPy>>, <<GlobAnyXPy>>, <<GlobTestAny>>, <<GlobBraceTsJs>>,
     <<GlobSrcTs, GlobSrcJs>>, <<GlobUnbalanced, GlobSrcPy>>, <<GlobUnbalanced>>,
     <<GlobStarEnv>>, <<GlobAnyEnv>>, <<GlobAppPy>>}

FileSkillConfigs ==
    {[fileTriggers |-> [pathPatterns |-> l]] : l \in PathPatternLists} \cup {<<>>}

FileRules ==
    {[skills |-> Items(configs)] :
        configs \in UNION {[1..k -> FileSkillConfigs] : k \in 1..MaxFileSkills}}

\* git status --short printing the given lines
GitLines(lines) == [outcome |-> "exit", returncode |-> 0, lines |-> lines]

GitResults ==
    {GitModified, GitClean, GitNotRepo, GitTimeout, GitMissing,
     GitLines(<<LineDeepXPy>>), GitLines(<<LineAppPyc>>), GitLines(<<LineAppTestTs>>),
     GitLines(<<LineAppTs>>), GitLines(<<LineEnv>>), GitLines(<<LineReadme, LineAppJs>>),
     GitLines(<<LineAppUnderPy>>)}

InitFile ==
    /\ \E rules \in FileRules, git \in GitResults :
          /\ rulesFile = RulesJson(rules)
          /\ skill_rules = rules
          /\ gitResult = git
    /\ argv = <<ScriptName, PromptNetwork>>
    /\ prompt = PromptNetwork
    /\ pc = "analyze_files"
    /\ prompt_matches = {}
    /\ context_matches = {}
    /\ prioritized = <<>>
    /\ top_matches = <<>>
    /\ matched_with_reason = <<>>
    /\ stdout = <<>>
    /\ stderr = <<>>
    /\ logFile = <<>>
    /\ error = "none"
    /\ NoEnvironment

NextFile == AnalyzeFileContext /\ UNCHANGED pyatsVars

SpecFile == InitFile /\ [][NextFile]_vars


(***************************************************************************)
(* C11 - C17: the file-context scorer and the glob translation             *)
(***************************************************************************)

\* the paths the scorer reads from git status: none when git failed
ModifiedPaths ==
    IF gitResult.outcome = "exit" /\ gitResult.returncode = 0
    THEN ModifiedFiles(gitResult.lines) ELSE <<>>

ModifiedPathSet == {ModifiedPaths[k] : k \in DOMAIN ModifiedPaths}

\* the translated glob matches the path
GlobMatches(pattern, file_path) == re_match(GlobToRegex(pattern), file_path) = "match"

\* analyze_file_context has returned
FileScored == pc = "rank"

\* C11: a skill is matched by the file-context scorer exactly when the translated glob
\* of one of its pathPatterns matches one of the modified paths; no modified path, or
\* no pathPattern, means no match.
ThmC11_MatchedIffSomePairMatches ==
    FileScored =>
        \A i \in DOMAIN ConfigSkills :
            /\ ConfigSkills[i].name \in context_matches
                 <=> \E k \in DOMAIN ModifiedPaths,
                        j \in DOMAIN PathPatterns(ConfigSkills[i].config) :
                            GlobMatches(PathPatterns(ConfigSkills[i].config)[j],
                                        ModifiedPaths[k])
            /\ (ModifiedPaths = <<>> \/ PathPatterns(ConfigSkills[i].config) = <<>>)
                 => ConfigSkills[i].name \notin context_matches

WitC11_LaterPairMatches ==
    /\ FileScored
    /\ Len(ModifiedPaths) = 2
    /\ \E i \in DOMAIN ConfigSkills :
          /\ ConfigSkills[i].name \in context_matches
          /\ Len(PathPatterns(ConfigSkills[i].config)) = 2
          /\ ~GlobMatches(PathPatterns(ConfigSkills[i].config)[1], ModifiedPaths[1])
          /\ ~GlobMatches(PathPatterns(ConfigSkills[i].config)[1], ModifiedPaths[2])
          /\ ~GlobMatches(PathPatterns(ConfigSkills[i].config)[2], ModifiedPaths[1])
          /\ GlobMatches(PathPatterns(ConfigSkills[i].config)[2], ModifiedPaths[2])


\* none of the characters the glob translation rewrites
GlobLiteral(s) == \A k \in DOMAIN s : s[k] \notin {"*", "{", "}", ","}

StartsWith(s, pre) == Len(pre) <= Len(s) /\ SubSeq(s, 1, Len(pre)) = pre

EndsWith(s, post) ==
    Len(post) <= Len(s) /\ SubSeq(s, Len(s) - Len(post) + 1, Len(s)) = post

\* the pattern is literal text, **, literal text, and the path is the first text, any
\* characters, the second text
DoubleStarCovers(pattern, file_path) ==
    \E n \in 1..(Len(pattern) - 1) :
        /\ pattern[n] = "*" /\ pattern[n + 1] = "*"
        /\ GlobLiteral(SubSeq(pattern, 1, n - 1))
        /\ GlobLiteral(SubSeq(pattern, n + 2, Len(pattern)))
        /\ Len(file_path) >= Len(pattern) - 2
        /\ StartsWith(file_path, SubSeq(pattern, 1, n - 1))
        /\ EndsWith(file_path, SubSeq(pattern, n + 2, Len(pattern)))

\* C12: ** matches any sequence of characters, path separators included: a skill with
\* a pattern of the form text ** text is matched by every modified path that starts
\* with the first text and ends with the second, as **/x.py by a/b/x.py.
CexC12_DoubleStarSpansDirectories ==
    FileScored =>
        \A i \in DOMAIN ConfigSkills :
            (\E j \in DOMAIN PathPatterns(ConfigSkills[i].config), k \in DOMAIN ModifiedPaths :
                 DoubleStarCovers(PathPatterns(ConfigSkills[i].config)[j], ModifiedPaths[k]))
                => ConfigSkills[i].name \in context_matches


\* the pattern with every ** written as a single *
SingleStars(pattern) == Replace(pattern, <<"*", "*">>, <<"*">>)

\* the pathPatterns of skill j are those of skill i with every ** written as *
SameButSingleStars(i, j) ==
    /\ Len(PathPatterns(ConfigSkills[j].config)) = Len(PathPatterns(ConfigSkills[i].config))
    /\ \A n \in DOMAIN PathPatterns(ConfigSkills[i].config) :
          PathPatterns(ConfigSkills[j].config)[n]
            = SingleStars(PathPatterns(ConfigSkills[i].config)[n])

\* C13: * and ** are not distinguished: two skills whose pathPatterns differ only in
\* that one writes * where the other writes ** are matched by the same modified paths.
CexC13_SingleStarSameAsDoubleStar ==
    FileScored =>
        \A i, j \in DOMAIN ConfigSkills :
            SameButSingleStars(i, j) =>
                (ConfigSkills[i].name \in context_matches
                    <=> ConfigSkills[j].name \in context_matches)


\* the pattern is literal text, *, literal text, and the path is the first text, any
\* characters, the second text
SingleStarCovers(pattern, file_path) ==
    \E n \in DOMAIN pattern :
        /\ pattern[n] = "*"
        /\ GlobLiteral(SubSeq(pattern, 1, n - 1))
        /\ GlobLiteral(SubSeq(pattern, n + 1, Len(pattern)))
        /\ Len(file_path) >= Len(pattern) - 1
        /\ StartsWith(file_path, SubSeq(pattern, 1, n - 1))
        /\ EndsWith(file_path, SubSeq(pattern, n + 1, Len(pattern)))

\* the pattern has one * and no other character the translation rewrites
OneStarPattern(pattern) ==
    \E n \in DOMAIN pattern :
        /\ pattern[n] = "*"
        /\ GlobLiteral(SubSeq(pattern, 1, n - 1))
        /\ GlobLiteral(SubSeq(pattern, n + 1, Len(pattern)))

\* C14: matching is anchored at both ends: a skill whose pathPatterns are all of the
\* form text * text is matched only if some modified path as a whole is the first
\* text, any characters, the second text; src/*.py is not matched by src/app.pyc.
CexC14_AnchoredAtBothEnds ==
    FileScored =>
        \A i \in DOMAIN ConfigSkills :
            (/\ ConfigSkills[i].name \in context_matches
             /\ \A j \in DOMAIN PathPatterns(ConfigSkills[i].config) :
                   OneStarPattern(PathPatterns(ConfigSkills[i].config)[j]))
                => \E j \in DOMAIN PathPatterns(ConfigSkills[i].config),
                      k \in DOMAIN ModifiedPaths :
                          SingleStarCovers(PathPatterns(ConfigSkills[i].config)[j],
                                           ModifiedPaths[k])


\* the positions of a character in a pattern
Positions(pattern, c) == {k \in DOMAIN pattern : pattern[k] = c}

BraceOpen(pattern)  == CHOOSE k \in DOMAIN pattern : pattern[k] = "{"
BraceClose(pattern) == CHOOSE k \in DOMAIN pattern : pattern[k] = "}"

\* the pattern has one brace group, of alternatives without *, and no comma outside it
OneBraceGroup(pattern) ==
    /\ Cardinality(Positions(pattern, "{")) = 1
    /\ Cardinality(Positions(pattern, "}")) = 1
    /\ BraceOpen(pattern) < BraceClose(pattern)
    /\ \A k \in Positions(pattern, ",") \cup Positions(pattern, "*") :
          (k \in Positions(pattern, ",")) <=> (BraceOpen(pattern) < k /\ k < BraceClose(pattern))

FirstComma(s) == CHOOSE n \in Positions(s, ",") : \A m \in Positions(s, ",") : n <= m

\* the texts between the commas of s
RECURSIVE SplitCommas(_)
SplitCommas(s) ==
    IF Positions(s, ",") = {} THEN <<s>>
    ELSE <<SubSeq(s, 1, FirstComma(s) - 1)>>
         \o SplitCommas(SubSeq(s, FirstComma(s) + 1, Len(s)))

Alternatives(pattern) ==
    SplitCommas(SubSeq(pattern, BraceOpen(pattern) + 1, BraceClose(pattern) - 1))

\* the patterns obtained by writing one alternative in place of the brace group
BraceExpansions(pattern) ==
    [n \in DOMAIN Alternatives(pattern) |->
        SubSeq(pattern, 1, BraceOpen(pattern) - 1)
        \o Alternatives(pattern)[n]
        \o SubSeq(pattern, BraceClose(pattern) + 1, Len(pattern))]

\* skill i has one pattern, with one brace group, and skill j has its expansions
ExpandedBy(i, j) ==
    /\ Len(PathPatterns(ConfigSkills[i].config)) = 1
    /\ OneBraceGroup(PathPatterns(ConfigSkills[i].config)[1])
    /\ PathPatterns(ConfigSkills[j].config)
         = BraceExpansions(PathPatterns(ConfigSkills[i].config)[1])

\* C15: a brace group {a,b,c} matches exactly one of its alternatives: a skill with a
\* pattern that has a brace group is matched by the modified paths exactly when a
\* skill with the patterns that have one alternative in place of the group is.
ThmC15_BraceGroupIsOneOfItsAlternatives ==
    FileScored =>
        \A i, j \in DOMAIN ConfigSkills :
            ExpandedBy(i, j) =>
                (ConfigSkills[i].name \in context_matches
                    <=> ConfigSkills[j].name \in context_matches)

WitC15_SecondAlternativeMatched ==
    /\ FileScored
    /\ \E i, j \in DOMAIN ConfigSkills :
          /\ ExpandedBy(i, j)
          /\ ConfigSkills[i].name \in context_matches
          /\ \E k \in DOMAIN ModifiedPaths :
                /\ ~GlobMatches(PathPatterns(ConfigSkills[j].config)[1], ModifiedPaths[k])
                /\ GlobMatches(PathPatterns(ConfigSkills[j].config)[2], ModifiedPaths[k])


\* the translated glob does not compile
GlobMalformed(pattern) == re_match(GlobToRegex(pattern), <<>>) = "error"

GlobWellFormed(pattern) == ~GlobMalformed(pattern)

HasMalformedGlob(config) ==
    \E j \in DOMAIN PathPatterns(config) : GlobMalformed(PathPatterns(config)[j])

\* the skill with its malformed pathPatterns taken out
SkillWithoutMalformedGlobs(item) ==
    IF HasMalformedGlob(item.config)
    THEN [item EXCEPT !.config.fileTriggers.pathPatterns = SelectSeq(@, GlobWellFormed)]
    ELSE item

\* the rules with the malformed pathPatterns of every skill taken out
WithoutMalformedGlobs(rules) ==
    [rules EXCEPT !.skills = [i \in DOMAIN @ |-> SkillWithoutMalformedGlobs(@[i])]]

\* C16: a path glob that does not translate into a valid matcher raises nothing and
\* matches no path: the skills matched by the modified files are those matched with
\* the malformed patterns taken out, and a skill with only malformed patterns is not
\* matched.
ThmC16_MalformedGlobNeverMatches ==
    pc # "analyze_files" =>
        /\ error = "none"
        /\ context_matches
             = analyze_file_context(gitResult, WithoutMalformedGlobs(ConfigValue)).matches
        /\ \A i \in DOMAIN ConfigSkills :
              (\A j \in DOMAIN PathPatterns(ConfigSkills[i].config) :
                   GlobMalformed(PathPatterns(ConfigSkills[i].config)[j]))
                  => ConfigSkills[i].name \notin context_matches

WitC16_MatchedAfterMalformedGlob ==
    /\ FileScored
    /\ \E i, j \in DOMAIN ConfigSkills :
          /\ i < j
          /\ Len(PathPatterns(ConfigSkills[i].config)) = 2
          /\ GlobMalformed(PathPatterns(ConfigSkills[i].config)[1])
          /\ ConfigSkills[i].name \in context_matches
          /\ ConfigSkills[j].name \in context_matches


PathAppTestTs == <<"s", "r", "c", "/", "a", "p", "p", ".", "t", "e", "s", "t", ".", "t", "s">>
PathAppTs     == <<"s", "r", "c", "/", "a", "p", "p", ".", "t", "s">>

\* C17: a skill with pathPatterns ["**/*.test.*"] is matched when the modified paths
\* are ["src/app.test.ts"] and is not when they are ["src/app.ts"].
ThmC17_TestFileExample ==
    FileScored =>
        \A i \in DOMAIN ConfigSkills :
            PathPatterns(ConfigSkills[i].config) = <<GlobTestAny>> =>
                /\ ModifiedPaths = <<PathAppTestTs>>
                     => ConfigSkills[i].name \in context_matches
                /\ ModifiedPaths = <<PathAppTs>>
                     => ConfigSkills[i].name \notin context_matches

WitC17_TestFileMatched ==
    /\ FileScored
    /\ ModifiedPaths = <<PathAppTestTs>>
    /\ \E i \in DOMAIN ConfigSkills :
          /\ PathPatterns(ConfigSkills[i].config) = <<GlobTestAny>>
          /\ context_matches = {ConfigSkills[i].name}


(***************************************************************************)
(* C18 - C20: reasons, absent configuration, the empty prompt              *)
(***************************************************************************)

ReasonPrompt == <<"Prompt keywords/patterns matched">>
ReasonFiles  == <<"Modified files matched">>
ReasonBoth   == <<"Prompt keywords/patterns matched", " + ", "Modified files matched">>

\* C18: the reason of every entry of the ActivationResult tells how the skill matched:
\* the prompt text iff by the prompt alone, the files text iff by the modified files
\* alone, the prompt text " + " the files text iff by both; it is never empty.
ThmC18_ReasonTellsHowMatched ==
    \A i \in DOMAIN matched_with_reason :
        /\ matched_with_reason[i][2] # <<>>
        /\ matched_with_reason[i][2] = ReasonPrompt
             <=> ResultNames[i] \in prompt_matches \ context_matches
        /\ matched_with_reason[i][2] = ReasonFiles
             <=> ResultNames[i] \in context_matches \ prompt_matches
        /\ matched_with_reason[i][2] = ReasonBoth
             <=> ResultNames[i] \in prompt_matches \cap context_matches

WitC18_AllThreeReasons ==
    /\ pc = "done"
    /\ stdout # <<>>
    /\ {matched_with_reason[i][2] : i \in DOMAIN matched_with_reason}
         = {ReasonPrompt, ReasonFiles, ReasonBoth}


\* the rules file is missing, or has no skills member, or an empty one
ConfigAbsentOrEmpty ==
    \/ rulesFile.kind = "missing"
    \/ /\ rulesFile.kind = "json"
       /\ Get(rulesFile.value, "skills", <<>>) = <<>>

\* C19: with the rules file missing, or without a skills member, or with an empty one,
\* the run ends after loading the rules with an empty ActivationResult: nothing is
\* printed on standard output, nothing is logged, and nothing is raised.
ThmC19_AbsentConfigGivesEmptyResult ==
    ConfigAbsentOrEmpty =>
        /\ pc \in {"start", "load", "done"}
        /\ matched_with_reason = <<>>
        /\ stdout = <<>>
        /\ logFile = <<>>
        /\ error = "none"

WitC19_MissingRulesFileRunEnded ==
    /\ pc = "done"
    /\ Len(argv) >= 2
    /\ rulesFile.kind = "missing"
    /\ skill_rules = [skills |-> <<>>, meta |-> <<>>]


\* a keyword or an intent pattern of the skill matches the empty text
HasTriggerMatchingEmpty(config) ==
    \/ \E k \in DOMAIN Keywords(config) : Keywords(config)[k] = <<>>
    \/ \E j \in DOMAIN IntentPatterns(config) :
          re_search_ignorecase(IntentPatterns(config)[j], <<>>) = "match"

\* C20: with the empty prompt no skill is matched by the prompt, whatever the
\* keywords, the intent patterns and the confidenceThreshold.
CexC20_EmptyPromptMatchesNothing ==
    (PromptScored /\ argv[2] = <<>>) => prompt_matches = {}

\* C20 as amended: with the empty prompt a skill is matched by the prompt only if the
\* confidenceThreshold is 0 or one of its keywords or intent patterns matches the
\* empty text.
ThmC20_EmptyPromptMatchesOnlyAtZeroOrOnEmptyText ==
    (PromptScored /\ argv[2] = <<>>) =>
        \A i \in DOMAIN ConfigSkills :
            ConfigSkills[i].name \in prompt_matches
                => \/ ConfigThreshold[1] = 0
                   \/ HasTriggerMatchingEmpty(ConfigSkills[i].config)

WitC20_EmptyPromptPositiveThreshold ==
    /\ PromptScored
    /\ argv[2] = <<>>
    /\ ConfigThreshold[1] > 0
    /\ \E i, j \in DOMAIN ConfigSkills :
          /\ SpecifiedMaxScore(ConfigSkills[i].config) > 0
          /\ ConfigSkills[i].name \notin prompt_matches
          /\ ConfigSkills[j].name \in prompt_matches


(***************************************************************************)
(* A PyATSEnvironment on its own: constructed on some machine, then its    *)
(* methods called in any order                                             *)
(***************************************************************************)

\* __init__: lines 18-20
InitPyats ==
    /\ host \in Hosts
    /\ env_type = detect_environment(host)
    /\ command_prefix = get_command_prefix(env_type)
    /\ executed = <<>>
    /\ returned = <<>>
    /\ argv = <<>>
    /\ rulesFile = [kind |-> "missing", value |-> <<>>]
    /\ gitResult = GitClean
    /\ pc = "done"
    /\ prompt = <<>>
    /\ skill_rules = <<>>
    /\ prompt_matches = {}
    /\ context_matches = {}
    /\ prioritized = <<>>
    /\ top_matches = <<>>
    /\ matched_with_reason = <<>>
    /\ stdout = <<>>
    /\ stderr = <<>>
    /\ logFile = <<>>
    /\ error = "none"

NextPyats ==
    \/ ExecutePyatsCommand /\ UNCHANGED hookVars
    \/ GetEnvironmentInfo /\ UNCHANGED hookVars
    \/ SetupEnvironment /\ UNCHANGED hookVars

SpecPyats == InitPyats /\ [][NextPyats]_vars

(***************************************************************************)
(* C21 - C29: the engine around the two scorers                            *)
(***************************************************************************)

\* git status exited with a non-zero status, timed out, or git was not found
GitUnavailable ==
    gitResult.outcome \in {"timeout", "notfound"} \/ gitResult.returncode # 0

\* the run got past the two scorers: main is after line 146, or ended after it
Scored ==
    \/ pc \in {"rank", "reasons", "output", "log"}
    \/ /\ pc = "done"
       /\ Len(argv) >= 2
       /\ error = "none"
       /\ ConfigSkills # <<>>
       /\ AutoActivationOn

\* C21: when git status fails, times out or git is not found, nothing is raised, the
\* file-context scorer yields no match, and the ActivationResult is made of the
\* prompt matches alone: all of them when they fit under maxSimultaneousSkills.
ThmC21_GitFailureKeepsPromptMatches ==
    GitUnavailable =>
        /\ error = "none"
        /\ context_matches = {}
        /\ Scored =>
              /\ prompt_matches = analyze_prompt(argv[2], ConfigValue).matches
              /\ Candidates = prompt_matches
        /\ (Scored /\ ResultBuilt) =>
              /\ ResultNameSet \subseteq prompt_matches
              /\ Cardinality(prompt_matches) <= MaxSimultaneousSkills(ConfigValue)
                   => ResultNameSet = prompt_matches

WitC21_TimeoutPromptMatchesPrinted ==
    /\ pc = "done"
    /\ gitResult.outcome = "timeout"
    /\ Cardinality(prompt_matches) = 2
    /\ ResultNameSet = prompt_matches
    /\ stdout # <<>>


\* the skills main retains, in order, when its loop over all_matches visits the
\* candidates in the given order
RetainedUnder(order) ==
    [i \in DOMAIN SlicePrefix(Sorted(Prioritize(order, ConfigValue)),
                              MaxSimultaneousSkills(ConfigValue)) |->
        SlicePrefix(Sorted(Prioritize(order, ConfigValue)),
                    MaxSimultaneousSkills(ConfigValue))[i][1]]

\* C22: the same prompt, modified paths and configuration always give the same
\* ActivationResult: the result of a run is the one every other iteration order of the
\* candidate set gives as well.
CexC22_SameResultOnEveryInvocation ==
    (Scored /\ ResultBuilt) =>
        \A order \in SetOrders(Candidates) : ResultNames = RetainedUnder(order)


\* C23: the candidates are the skills matched by the prompt scorer or by the
\* file-context scorer, as main holds them when the scorers have returned; the
\* ActivationResult holds candidates only, and all of them when there are at most
\* maxSimultaneousSkills.
ThmC23_ResultIsUnionUnlessTruncated ==
    /\ (Scored /\ pc = "rank") =>
          /\ prompt_matches = analyze_prompt(argv[2], ConfigValue).matches
          /\ context_matches = analyze_file_context(gitResult, ConfigValue).matches
    /\ (Scored /\ ResultBuilt) =>
          /\ ResultNameSet \subseteq prompt_matches \cup context_matches
          /\ Cardinality(prompt_matches \cup context_matches)
                <= MaxSimultaneousSkills(ConfigValue)
               => ResultNameSet = prompt_matches \cup context_matches

WitC23_UnionLargerThanEither ==
    /\ pc = "done"
    /\ Scored
    /\ ResultNameSet = prompt_matches \cup context_matches
    /\ prompt_matches \ context_matches # {}
    /\ context_matches \ prompt_matches # {}
    /\ prompt_matches \cap context_matches # {}


\* the configuration of the i-th skill with its malformed intent patterns taken out
RemainingConfig(i) == WithoutMalformed(ConfigValue, i).skills[i].config

\* C24: a malformed intent pattern does not end the scoring of its skill: it adds 0 to
\* score and 2 to maxScore, and the skill is matched exactly when the score of its
\* other triggers over count(keywords) + 2 * count(all intentPatterns) reaches the
\* confidenceThreshold.
ThmC24_MalformedPatternCountsInMaxScoreOnly ==
    pc # "analyze_prompt" =>
        /\ error = "none"
        /\ \A i \in DOMAIN ConfigSkills :
              HasMalformed(ConfigSkills[i].config) =>
                  (ConfigSkills[i].name \in prompt_matches
                      <=> SpecifiedScore(RemainingConfig(i), argv[2]) * ConfigThreshold[2]
                            >= ConfigThreshold[1]
                                 * (Len(Keywords(ConfigSkills[i].config))
                                    + 2 * Len(IntentPatterns(ConfigSkills[i].config))))

WitC24_UnmatchedByMaxScoreOfMalformed ==
    /\ pc = "analyze_files"
    /\ \E i \in DOMAIN ConfigSkills :
          /\ HasMalformed(ConfigSkills[i].config)
          /\ ConfigSkills[i].name \notin prompt_matches
          /\ SpecifiedScore(RemainingConfig(i), argv[2]) = 3
          /\ SpecifiedMaxScore(RemainingConfig(i)) = 3
          /\ SpecifiedMaxScore(ConfigSkills[i].config) = 5


\* the configuration has no skills, or autoActivationEnabled is false
ShortCircuit ==
    \/ rulesFile.kind = "missing"
    \/ /\ rulesFile.kind = "json"
       /\ ConfigSkills = <<>> \/ ~AutoActivationOn

\* C25: with no skills, or with autoActivationEnabled false, main never gets to a step
\* after line 142: no call of the prompt scorer, none of git status, no ranking, no
\* message and no log entry.
ThmC25_ShortCircuitBeforeScoring ==
    [][ShortCircuit =>
          /\ ~(AnalyzePrompt \/ AnalyzeFileContext \/ Rank \/ Reasons \/ Output
                 \/ LogActivation)
          /\ stdout' = <<>>
          /\ logFile' = <<>>]_vars

WitC25_ReturnedWhenDisabled ==
    /\ pc = "done"
    /\ Len(argv) >= 2
    /\ ConfigSkills # <<>>
    /\ ~AutoActivationOn
    /\ skill_rules = ConfigValue
    /\ argv[2] = PromptVoip
    /\ gitResult = GitModified


\* the pattern has no wildcard and no brace group
PlainPattern(pattern) == \A k \in DOMAIN pattern : pattern[k] \notin {"*", "{", "}"}

\* C26: every character of a glob other than the wildcards and the brace-group syntax
\* matches only itself (. only a dot, a comma outside a group only a comma): a skill
\* whose pathPatterns have no wildcard and no brace group is matched exactly when a
\* modified path is equal to one of them.
CexC26_PlainPatternMatchesItselfOnly ==
    FileScored =>
        \A i \in DOMAIN ConfigSkills :
            (\A j \in DOMAIN PathPatterns(ConfigSkills[i].config) :
                 PlainPattern(PathPatterns(ConfigSkills[i].config)[j]))
                => (ConfigSkills[i].name \in context_matches
                       <=> \E j \in DOMAIN PathPatterns(ConfigSkills[i].config) :
                              PathPatterns(ConfigSkills[i].config)[j] \in ModifiedPathSet)



\* the level a skill is to be ranked at: medium when its priority is missing or is
\* not one of high, medium, low
EffectiveLevel(name) == IF HasNamedPriority(name) THEN PriorityLevel(name) ELSE 2

\* C27: a matched skill whose priority is missing or unknown is ranked as a medium
\* skill: no entry before it ranks lower and none after it ranks higher, it is dropped
\* only for skills that rank at least as high, and its priority raises nothing.
ThmC27_UnknownPriorityRanksAsMedium ==
    (Scored /\ ResultBuilt) =>
        /\ error = "none"
        /\ \A i, j \in DOMAIN matched_with_reason :
              (i < j /\ ~(HasNamedPriority(ResultNames[i]) /\ HasNamedPriority(ResultNames[j])))
                  => EffectiveLevel(ResultNames[i]) >= EffectiveLevel(ResultNames[j])
        /\ \A dropped \in Candidates \ ResultNameSet, kept \in ResultNameSet :
              ~HasNamedPriority(dropped)
                  => EffectiveLevel(kept) >= EffectiveLevel(dropped)

WitC27_UnknownBetweenHighAndLow ==
    /\ pc = "done"
    /\ Len(matched_with_reason) = 3
    /\ HasNamedPriority(ResultNames[1]) /\ PriorityLevel(ResultNames[1]) = 3
    /\ ~HasNamedPriority(ResultNames[2])
    /\ HasNamedPriority(ResultNames[3]) /\ PriorityLevel(ResultNames[3]) = 1
    /\ ConfigIndex(ResultNames[2]) = 1


\* the configuration with the three meta members written out, 0.6, 3 and true standing
\* for the ones it omits
ExplicitMeta ==
    [autoActivationEnabled |-> Get(ConfigMeta, "autoActivationEnabled", TRUE),
     confidenceThreshold   |-> Get(ConfigMeta, "confidenceThreshold", <<3, 5>>),
     maxSimultaneousSkills |-> Get(ConfigMeta, "maxSimultaneousSkills", 3)]

ExplicitConfig == [skills |-> ConfigSkills, meta |-> ExplicitMeta]

\* the names of a prioritized list
Names(pairs) == [i \in DOMAIN pairs |-> pairs[i][1]]

\* the result the explicit configuration gives for the candidates of this run, taken
\* in the given order
ExplicitResult(order) ==
    Names(SlicePrefix(Sorted(Prioritize(order, ExplicitConfig)),
                      ExplicitMeta.maxSimultaneousSkills))

\* the run has a prompt and a rules file with skills
Configured == Len(argv) >= 2 /\ rulesFile.kind = "json" /\ ConfigSkills # <<>>

\* C28: a configuration whose meta is absent or omits a member behaves as the one with
\* confidenceThreshold 0.6, maxSimultaneousSkills 3 and autoActivationEnabled true
\* written out: the run goes on to score exactly when the explicit switch is true, the
\* prompt matches are those of the explicit threshold, and the ActivationResult is one
\* the explicit configuration gives.
ThmC28_OmittedMetaEqualsDefaults ==
    Configured =>
        /\ pc \in {"analyze_prompt", "analyze_files", "rank", "reasons", "output", "log"}
             => ExplicitMeta.autoActivationEnabled
        /\ (pc = "done" /\ ExplicitMeta.autoActivationEnabled) =>
              /\ prompt_matches = analyze_prompt(argv[2], ExplicitConfig).matches
              /\ context_matches = analyze_file_context(gitResult, ExplicitConfig).matches
              /\ \E order \in SetOrders(Candidates) : ResultNames = ExplicitResult(order)

WitC28_NoMetaTruncatedToThree ==
    /\ pc = "done"
    /\ Configured
    /\ "meta" \notin DOMAIN ConfigValue
    /\ Len(ConfigSkills) = 5
    /\ Cardinality(Candidates) = 4
    /\ Len(matched_with_reason) = 3
    /\ ConfigSkills[5].name \notin prompt_matches


\* config.log_activations, false when absent
LogActivationsOn == Get(Get(ConfigValue, "config", <<>>), "log_activations", FALSE)

\* C29: a log entry is written only when the ActivationResult is not empty and
\* log_activations is true, and only after the activation message was printed; whether
\* or not the write succeeds, nothing is raised and the printed message stays as it was.
ThmC29_LogOnlyAfterMessageAndFailureSwallowed ==
    /\ logFile # <<>> =>
          /\ matched_with_reason # <<>>
          /\ LogActivationsOn
          /\ stdout = <<format_activation_message(matched_with_reason, ConfigValue)>>
          /\ logFile = <<LogEntry(matched_with_reason, argv[2])>>
    /\ (Configured /\ pc \in {"log", "done"}) =>
          /\ error = "none"
          /\ matched_with_reason # <<>>
               => stdout = <<format_activation_message(matched_with_reason, ConfigValue)>>

WitC29_LogWriteFailedMessageKept ==
    /\ pc = "done"
    /\ LogActivationsOn
    /\ matched_with_reason # <<>>
    /\ logFile = <<>>
    /\ stdout = <<format_activation_message(matched_with_reason, ConfigValue)>>

(***************************************************************************)
(* C30: PyATSEnvironment without an environment                            *)
(***************************************************************************)

\* the machine as the claim describes it: not in a container, no local pyATS, and no
\* Docker together with docker-compose.yml
NothingFound(h) ==
    /\ ~h.dockerenv /\ ~h.workspace
    /\ h.pyats # "exit0"
    /\ ~(h.docker = "exit0" /\ h.compose)

\* a call of execute_pyats_command while env_type is 'none'
ExecuteWithoutEnvironment == env_type = "none" /\ ExecutePyatsCommand

\* the calls that detect the environment again: setup_environment, when its script
\* succeeded
DetectedAgain ==
    /\ SetupEnvironment
    /\ env_type = "none"
    /\ returned'.success

\* C30: execute_pyats_command never runs a command while env_type is 'none': it returns
\* a result with success = False and an error message, and leaves env_type and
\* command_prefix unchanged; and whenever the environment is detected, on construction
\* and after a successful setup, env_type is 'none' exactly when the process is not in
\* a container, no local pyATS is found and Docker with docker-compose.yml is not
\* available.
ThmC30_NoCommandRunWithoutEnvironment ==
    /\ env_type = "none" <=> NothingFound(host)
    /\ [][/\ ExecuteWithoutEnvironment =>
                /\ executed' = executed
                /\ returned'.success = FALSE
                /\ "error" \in DOMAIN returned'
                /\ returned'.error # ""
                /\ env_type' = env_type
                /\ command_prefix' = command_prefix
          /\ DetectedAgain => (env_type' = "none" <=> NothingFound(host'))]_vars

\* a PyATSEnvironment on a machine with Docker but no docker-compose.yml has refused a
\* command
WitC30_RefusedWithDockerButNoCompose ==
    /\ env_type = "none"
    /\ host.docker = "exit0"
    /\ ~host.compose
    /\ executed = <<>>
    /\ returned = NotAvailable


====
